---- MODULE Spec2Model ----
(***************************************************************************)
(* A model of the value comparator (Values.compareValue and the predicates  *)
(* it classifies with), of the task de-duplication (nestItems) and of the   *)
(* in-place task rewriter (rewriteTask) of obsidian-dataview.               *)
(*                                                                          *)
(* A JavaScript string is a sequence of one-character strings.  A raw       *)
(* JavaScript value is a record whose field js names what the runtime knows *)
(* of it (its typeof / its class) and whose field jv carries its content.    *)
(***************************************************************************)
EXTENDS Integers, Sequences, FiniteSets, TLC

VARIABLES
    val1, val2, val3,   \* the Literal values handed to DataviewApi.compare
    cpc,                \* "start" before the comparisons ran, "done" after
    cmp,                \* the results of the comparisons
    raw,                \* the array of list items handed to nestItems
    rawIn,              \* that array as it was when nestItems was called
    npc,                \* "start" before nestItems ran, "done" after
    nest,               \* what nestItems returned: the kept items and the mask
    vault,              \* the document store: the text of the file at each path
    call,               \* the invocations of rewriteTask: arguments, position, locals
    io,                 \* the reads and writes issued to vault.adapter, in order
    originalText,       \* the text handed to setTaskCompletion
    complete,           \* the completion handed to setTaskCompletion
    completion,         \* what setTaskCompletion returned, Undefined before it ran
    heap,               \* the objects in memory, by address
    field,              \* the value handed to deepCopy: a primitive or a reference
    copy,               \* what deepCopy returned
    hpc                 \* 0 before deepCopy ran, 1 after, one more with each mutation

cvars == <<val1, val2, val3, cpc, cmp>>
nvars == <<raw, rawIn, npc, nest>>
rvars == <<vault, call, io>>
tvars == <<originalText, complete, completion>>
hvars == <<heap, field, copy, hpc>>
vars == <<cvars, nvars, rvars, tvars, hvars>>

-----------------------------------------------------------------------------
(* Bounds of the model.                                                     *)

\* Longest array of Literals drawn as an input of compare.
MaxArrayLen == 2
\* Last line of a file that holds a list item, in the inputs of nestItems.
MaxLine == 2
\* Longest array of list items handed to nestItems.
MaxRoots == 3
\* Most lines of a document of the vault before a rewrite.
MaxDocLines == 2

-----------------------------------------------------------------------------
(* Strings.                                                                 *)

Letters ==
    <<"a", "b", "c", "d", "e", "f", "g", "h", "i", "j", "k", "l", "m",
      "n", "o", "p", "q", "r", "s", "t", "u", "v", "w", "x", "y", "z">>

\* The characters of the model, in the order of the root collation used by
\* String.prototype.localeCompare: white space, punctuation, digits, letters.
CollationOrder ==
    <<"\t", "\n", "\r", " ", "-", ":", ".", "[", "]", "*", "+", "0", "1", "2", "3">>
        \o Letters

UpperCase == {"X"}

ToLower(c) == IF c = "X" THEN "x" ELSE c

IndexOf(seq, c) == CHOOSE i \in 1..Len(seq) : seq[i] = c

\* UTF-16 code unit of a character (String.prototype.charCodeAt).
CodeUnit(c) ==
    CASE c = "\t" -> 9
      [] c = "\n" -> 10
      [] c = "\r" -> 13
      [] c = " " -> 32
      [] c = "*" -> 42
      [] c = "+" -> 43
      [] c = "-" -> 45
      [] c = "." -> 46
      [] c = "0" -> 48
      [] c = "1" -> 49
      [] c = "2" -> 50
      [] c = "3" -> 51
      [] c = ":" -> 58
      [] c = "X" -> 88
      [] c = "[" -> 91
      [] c = "]" -> 93
      [] OTHER -> 96 + IndexOf(Letters, c)

\* Lexicographic comparison of two sequences of integers: -1, 0 or 1.
RECURSIVE SeqCmp(_, _)
SeqCmp(u, v) ==
    IF u = <<>> /\ v = <<>> THEN 0
    ELSE IF u = <<>> THEN -1
    ELSE IF v = <<>> THEN 1
    ELSE IF Head(u) < Head(v) THEN -1
    ELSE IF Head(u) > Head(v) THEN 1
    ELSE SeqCmp(Tail(u), Tail(v))

PrimaryWeights(s) == [i \in 1..Len(s) |-> IndexOf(CollationOrder, ToLower(s[i]))]
TertiaryWeights(s) == [i \in 1..Len(s) |-> IF s[i] \in UpperCase THEN 1 ELSE 0]

\* String.prototype.localeCompare under the root collation: the letters
\* first, their case only between strings that have the same letters.
localeCompare(s, t) ==
    LET p == SeqCmp(PrimaryWeights(s), PrimaryWeights(t))
    IN  IF p # 0 THEN p ELSE SeqCmp(TertiaryWeights(s), TertiaryWeights(t))

CodeUnits(s) == [i \in 1..Len(s) |-> CodeUnit(s[i])]

\* Array.prototype.sort() without a comparator, on a set of distinct strings:
\* ascending by UTF-16 code units.
RECURSIVE SortStrings(_)
SortStrings(S) ==
    IF S = {} THEN <<>>
    ELSE LET m == CHOOSE x \in S :
                    \A y \in S : SeqCmp(CodeUnits(x), CodeUnits(y)) <= 0
         IN  <<m>> \o SortStrings(S \ {m})

Min(a, b) == IF a < b THEN a ELSE b

-----------------------------------------------------------------------------
(* Raw JavaScript values.                                                   *)

Undefined == [js |-> "undefined"]
Null == [js |-> "null"]
Num(n) == [js |-> "number", jv |-> n]
Str(s) == [js |-> "string", jv |-> s]
Bool(b) == [js |-> "boolean", jv |-> b]
\* luxon DateTime: an instant (epoch milliseconds) seen in a zone.
DateTimeOf(ts, zone) == [js |-> "DateTime", jv |-> [ts |-> ts, zone |-> zone]]
\* luxon Duration: a bag of units.
DurationOf(h, m) == [js |-> "Duration", jv |-> [hours |-> h, minutes |-> m]]
HtmlOf(id) == [js |-> "HTMLElement", jv |-> id]
Arr(seq) == [js |-> "Array", jv |-> seq]
Obj(f) == [js |-> "Object", jv |-> f]
Fn(f) == [js |-> "function", jv |-> f]
Sym(id) == [js |-> "symbol", jv |-> id]
\* Link: subpath is Undefined or a string value.
LinkOf(path, type, subpath) ==
    [js |-> "Link", jv |-> [path |-> path, type |-> type, subpath |-> subpath]]

\* The typeof operator.
TypeOfJs(val) ==
    CASE val.js = "undefined" -> "undefined"
      [] val.js = "number" -> "number"
      [] val.js = "string" -> "string"
      [] val.js = "boolean" -> "boolean"
      [] val.js = "function" -> "function"
      [] val.js = "symbol" -> "symbol"
      [] OTHER -> "object"

\* x && ..., !x on a string-or-undefined.
Truthy(val) ==
    CASE val.js = "undefined" -> FALSE
      [] val.js = "null" -> FALSE
      [] val.js = "string" -> val.jv # <<>>
      [] OTHER -> TRUE

-----------------------------------------------------------------------------
(* Values: the classifying predicates.                                      *)

isString(val) == TypeOfJs(val) = "string"
isNumber(val) == TypeOfJs(val) = "number"
isDate(val) == val.js = "DateTime"
isDuration(val) == val.js = "Duration"
isNull(val) == val = Null \/ val = Undefined
isArray(val) == val.js = "Array"
isBoolean(val) == TypeOfJs(val) = "boolean"
isLink(val) == val.js = "Link"
\* In the application HTMLElement is defined.
isHtml(val) == val.js = "HTMLElement"
isObject(val) ==
    /\ TypeOfJs(val) = "object"
    /\ ~isHtml(val) /\ ~isArray(val) /\ ~isDuration(val) /\ ~isDate(val) /\ ~isLink(val)
isFunction(val) == TypeOfJs(val) = "function"

wrapValue(val) ==
    IF isNull(val) THEN [type |-> "null", value |-> val]
    ELSE IF isNumber(val) THEN [type |-> "number", value |-> val]
    ELSE IF isString(val) THEN [type |-> "string", value |-> val]
    ELSE IF isBoolean(val) THEN [type |-> "boolean", value |-> val]
    ELSE IF isDuration(val) THEN [type |-> "duration", value |-> val]
    ELSE IF isDate(val) THEN [type |-> "date", value |-> val]
    ELSE IF isHtml(val) THEN [type |-> "html", value |-> val]
    ELSE IF isArray(val) THEN [type |-> "array", value |-> val]
    ELSE IF isLink(val) THEN [type |-> "link", value |-> val]
    ELSE IF isFunction(val) THEN [type |-> "function", value |-> val]
    ELSE IF isObject(val) THEN [type |-> "object", value |-> val]
    ELSE Undefined

\* The characters of a LiteralType.
TypeName(type) ==
    CASE type = "boolean" -> <<"b", "o", "o", "l", "e", "a", "n">>
      [] type = "number" -> <<"n", "u", "m", "b", "e", "r">>
      [] type = "string" -> <<"s", "t", "r", "i", "n", "g">>
      [] type = "date" -> <<"d", "a", "t", "e">>
      [] type = "duration" -> <<"d", "u", "r", "a", "t", "i", "o", "n">>
      [] type = "link" -> <<"l", "i", "n", "k">>
      [] type = "array" -> <<"a", "r", "r", "a", "y">>
      [] type = "object" -> <<"o", "b", "j", "e", "c", "t">>
      [] type = "html" -> <<"h", "t", "m", "l">>
      [] type = "function" -> <<"f", "u", "n", "c", "t", "i", "o", "n">>
      [] type = "null" -> <<"n", "u", "l", "l">>
      [] type = "file" -> <<"f", "i", "l", "e">>
      [] type = "header" -> <<"h", "e", "a", "d", "e", "r">>
      [] type = "block" -> <<"b", "l", "o", "c", "k">>

-----------------------------------------------------------------------------
(* luxon: what < and equals do on DateTime and Duration.                    *)

\* DateTime.valueOf(): the epoch milliseconds.
DateTimeValueOf(d) == d.jv.ts
\* DateTime.equals(): the same instant in the same zone.
DateTimeEquals(d1, d2) == d1.jv.ts = d2.jv.ts /\ d1.jv.zone = d2.jv.zone
\* Duration.valueOf(): the length in milliseconds.
DurationValueOf(d) == d.jv.hours * 3600000 + d.jv.minutes * 60000
\* Duration.equals(): the same amount in every unit.
DurationEquals(d1, d2) == d1.jv.hours = d2.jv.hours /\ d1.jv.minutes = d2.jv.minutes

-----------------------------------------------------------------------------
(* Values.compareValue.                                                     *)

RECURSIVE compareValue(_, _, _)

\* case "number"
compareNumber(v1, v2) ==
    IF v1.jv < v2.jv THEN -1
    ELSE IF v1.jv = v2.jv THEN 0
    ELSE 1

\* case "boolean"
compareBoolean(v1, v2) ==
    IF v1.jv = v2.jv THEN 0
    ELSE IF v1.jv THEN 1 ELSE -1

\* linkNormalizer ?? ((x: string) => x), applied to a path.
normalize(linkNormalizer, path) ==
    IF linkNormalizer.js \in {"undefined", "null"} THEN path ELSE linkNormalizer.jv[path]

\* case "link"
compareLink(link1, link2, linkNormalizer) ==
    LET pathCompare == localeCompare(normalize(linkNormalizer, link1.jv.path),
                                     normalize(linkNormalizer, link2.jv.path))
        typeCompare == localeCompare(TypeName(link1.jv.type), TypeName(link2.jv.type))
        sub1 == link1.jv.subpath
        sub2 == link2.jv.subpath
    IN  IF pathCompare # 0 THEN pathCompare
        ELSE IF typeCompare # 0 THEN typeCompare
        ELSE IF Truthy(sub1) /\ ~Truthy(sub2) THEN 1
        ELSE IF ~Truthy(sub1) /\ Truthy(sub2) THEN -1
        ELSE IF ~Truthy(sub1) /\ ~Truthy(sub2) THEN 0
        ELSE localeCompare(sub1.jv, sub2.jv)

\* case "date"
compareDate(d1, d2) ==
    IF DateTimeValueOf(d1) < DateTimeValueOf(d2) THEN -1
    ELSE IF DateTimeEquals(d1, d2) THEN 0
    ELSE 1

\* case "duration"
compareDuration(d1, d2) ==
    IF DurationValueOf(d1) < DurationValueOf(d2) THEN -1
    ELSE IF DurationEquals(d1, d2) THEN 0
    ELSE 1

\* The loop of case "array", from position index (1-based) on.
RECURSIVE compareElements(_, _, _)
compareElements(f1, f2, index) ==
    IF index > Min(Len(f1), Len(f2)) THEN 0
    ELSE LET comp == compareValue(f1[index], f2[index], Undefined)
         IN  IF comp # 0 THEN comp ELSE compareElements(f1, f2, index + 1)

\* A plausible slip: the lengths subtracted the other way round.
compareArrayReversedLength(f1, f2) ==
    LET comp == compareElements(f1, f2, 1)
    IN  IF comp # 0 THEN comp ELSE Len(f2) - Len(f1)

\* case "array"
compareArray(f1, f2) ==
    LET comp == compareElements(f1, f2, 1)
    IN  IF comp # 0 THEN comp ELSE Len(f1) - Len(f2)

\* Object.keys(o), sorted, as an array of strings.
sortedKeys(o) ==
    LET k == SortStrings(DOMAIN o.jv)
    IN  [i \in 1..Len(k) |-> Str(k[i])]

\* The loop "for (let key of k1)" of case "object", from position index on.
RECURSIVE compareFields(_, _, _, _)
compareFields(o1, o2, k1, index) ==
    IF index > Len(k1) THEN 0
    ELSE LET comp == compareValue(o1.jv[k1[index].jv], o2.jv[k1[index].jv], Undefined)
         IN  IF comp # 0 THEN comp ELSE compareFields(o1, o2, k1, index + 1)

\* case "object"
compareObject(o1, o2) ==
    LET k1 == sortedKeys(o1)
        k2 == sortedKeys(o2)
        keyCompare == compareValue(Arr(k1), Arr(k2), Undefined)
    IN  IF keyCompare # 0 THEN keyCompare ELSE compareFields(o1, o2, k1, 1)

\* The switch on wrap1.type, both values having this type.
compareSameType(wrap1, wrap2, linkNormalizer) ==
    CASE wrap1.type = "string" -> localeCompare(wrap1.value.jv, wrap2.value.jv)
      [] wrap1.type = "number" -> compareNumber(wrap1.value, wrap2.value)
      [] wrap1.type = "null" -> 0
      [] wrap1.type = "boolean" -> compareBoolean(wrap1.value, wrap2.value)
      [] wrap1.type = "link" -> compareLink(wrap1.value, wrap2.value, linkNormalizer)
      [] wrap1.type = "date" -> compareDate(wrap1.value, wrap2.value)
      [] wrap1.type = "duration" -> compareDuration(wrap1.value, wrap2.value)
      [] wrap1.type = "array" -> compareArray(wrap1.value.jv, wrap2.value.jv)
      [] wrap1.type = "object" -> compareObject(wrap1.value, wrap2.value)
      [] wrap1.type = "html" -> 0
      [] wrap1.type = "function" -> 0

\* After the nulls: wrap, compare the types, then switch.
compareWrapped(val1_, val2_, linkNormalizer) ==
    LET wrap1 == wrapValue(val1_)
        wrap2 == wrapValue(val2_)
    IN  IF wrap1 = Undefined /\ wrap2 = Undefined THEN 0
        ELSE IF wrap1 = Undefined THEN 1
        ELSE IF wrap2 = Undefined THEN -1
        ELSE IF wrap1.type # wrap2.type
             THEN localeCompare(TypeName(wrap1.type), TypeName(wrap2.type))
        ELSE compareSameType(wrap1, wrap2, linkNormalizer)

\* A plausible slip: null sorted before every other value.
compareValueNullFirst(val1_, val2_, linkNormalizer) ==
    LET v1 == IF val1_ = Undefined THEN Null ELSE val1_
        v2 == IF val2_ = Undefined THEN Null ELSE val2_
    IN  IF v1 = Null /\ v2 = Null THEN 0
        ELSE IF v1 = Null THEN -1
        ELSE IF v2 = Null THEN 1
        ELSE compareWrapped(v1, v2, linkNormalizer)

compareValue(val1_, val2_, linkNormalizer) ==
    LET v1 == IF val1_ = Undefined THEN Null ELSE val1_
        v2 == IF val2_ = Undefined THEN Null ELSE val2_
    IN  IF v1 = Null /\ v2 = Null THEN 0
        ELSE IF v1 = Null THEN 1
        ELSE IF v2 = Null THEN -1
        ELSE compareWrapped(v1, v2, linkNormalizer)

\* DataviewApi.compare
compare(a, b) == compareValue(a, b, Undefined)

-----------------------------------------------------------------------------
(* The Literal values compare is applied to.                                *)

StrA == <<"a">>
StrB == <<"b">>
StrH == <<"h">>

Nulls == {Null, Undefined}
Numbers == {Num(1), Num(3)}
Strings == {Str(StrA), Str(StrB)}
Booleans == {Bool(FALSE), Bool(TRUE)}
\* The same instant seen in two zones, and a later instant.
Dates == {DateTimeOf(0, "UTC"), DateTimeOf(0, "EST"), DateTimeOf(1, "UTC")}
\* One hour, sixty minutes, thirty minutes.
Durations == {DurationOf(1, 0), DurationOf(0, 60), DurationOf(0, 30)}
Links ==
    {LinkOf(StrA, "file", Undefined), LinkOf(StrB, "file", Undefined),
     LinkOf(StrA, "header", Str(StrH))}
Htmls == {HtmlOf(1), HtmlOf(2)}
Functions == {Fn(1)}
\* Values no predicate of wrapValue accepts.
Unclassifiable == {Sym(1)}

Scalars ==
    Nulls \cup Numbers \cup Strings \cup Booleans \cup Dates \cup Durations
        \cup Links \cup Htmls \cup Functions \cup Unclassifiable

\* What the arrays and objects of the model hold.
Elements == {Num(1), Num(3), Null}

SeqsUpTo(S, n) == UNION {[1..k -> S] : k \in 0..n}

FlatArrays == {Arr(s) : s \in SeqsUpTo(Elements, MaxArrayLen)}
NestedArrays ==
    {Arr(<<x>>) : x \in {Arr(<<>>), Arr(<<Num(1)>>), Arr(<<Num(1), Num(1)>>)}}
        \cup {Arr(<<Arr(<<Num(1)>>), Num(3)>>)}
Keys == {StrA, StrB}
Objects ==
    {Obj(f) : f \in UNION {[K -> {Num(1), Num(3)}] : K \in SUBSET Keys}}
        \cup {Obj([k \in {StrA} |-> Arr(<<Num(1)>>)]),
              Obj([k \in {StrA} |-> Arr(<<Num(1), Num(1)>>)])}

Literals == Scalars \cup FlatArrays \cup NestedArrays \cup Objects

-----------------------------------------------------------------------------
(* DataviewApi.compare applied to drawn values.                             *)

NoResults == [r11 |-> 0, r12 |-> 0, r21 |-> 0, r23 |-> 0, r13 |-> 0, r1n |-> 0, rn1 |-> 0]

\* Nothing is being compared.
CompareIdle ==
    /\ val1 = Null
    /\ val2 = Null
    /\ val3 = Null
    /\ cpc = "idle"
    /\ cmp = NoResults

\* nestItems is not in use.
NestIdle ==
    /\ raw = <<>>
    /\ rawIn = <<>>
    /\ npc = "idle"
    /\ nest = [filtered |-> <<>>, mask |-> {}]

\* rewriteTask is not in use.
RewriteIdle ==
    /\ vault = <<>>
    /\ call = <<>>
    /\ io = <<>>

\* setTaskCompletion is not in use.
CompletionIdle ==
    /\ originalText = <<>>
    /\ complete = FALSE
    /\ completion = Undefined

\* deepCopy is not in use.
CopyIdle ==
    /\ heap = <<>>
    /\ field = Undefined
    /\ copy = Undefined
    /\ hpc = 0

CompareInit ==
    /\ val1 \in Literals
    /\ val2 \in Literals
    /\ val3 \in Literals
    /\ cpc = "start"
    /\ cmp = NoResults
    /\ NestIdle
    /\ RewriteIdle
    /\ CompletionIdle
    /\ CopyIdle

\* compare is called on the pairs of the three values, and against null.
Compare ==
    /\ cpc = "start"
    /\ cmp' = [r11 |-> compare(val1, val1),
               r12 |-> compare(val1, val2),
               r21 |-> compare(val2, val1),
               r23 |-> compare(val2, val3),
               r13 |-> compare(val1, val3),
               r1n |-> compare(val1, Null),
               rn1 |-> compare(Null, val1)]
    /\ cpc' = "done"
    /\ UNCHANGED <<val1, val2, val3>>
    /\ UNCHANGED <<nvars, rvars, tvars, hvars>>

CompareNext == Compare

SpecCompare == CompareInit /\ [][CompareNext]_vars

Sign(n) == IF n < 0 THEN -1 ELSE IF n > 0 THEN 1 ELSE 0

\* C1: compare is a strict total order over the Literals of every tag:
\* compare(a, a) = 0, sign(compare(a, b)) = -sign(compare(b, a)), and
\* compare(a, b) <= 0 with compare(b, c) <= 0 implies compare(a, c) <= 0.
C1_TotalOrder ==
    cpc = "done" =>
        /\ cmp.r11 = 0
        /\ Sign(cmp.r12) = -Sign(cmp.r21)
        /\ (cmp.r12 <= 0 /\ cmp.r23 <= 0 => cmp.r13 <= 0)

\* C2: null is the maximum of the order: for every classified value a that is
\* not null, compare(a, null) < 0 and compare(null, a) > 0, whether the null
\* is null or undefined; and compare(undefined, null) = 0.
C2_NullIsMaximum ==
    cpc = "done" =>
        /\ (~isNull(val1) /\ wrapValue(val1) # Undefined
                => cmp.r1n < 0 /\ cmp.rn1 > 0)
        /\ (~isNull(val1) /\ wrapValue(val1) # Undefined /\ isNull(val2)
                => cmp.r12 < 0 /\ cmp.r21 > 0)
        /\ (val1 = Undefined => cmp.r1n = 0 /\ cmp.rn1 = 0)

\* An array has been compared with undefined, both ways.
C2_Witness ==
    /\ cpc = "done"
    /\ val1 = Arr(<<Null>>)
    /\ val2 = Undefined
    /\ cmp.r12 = -1
    /\ cmp.r21 = 1

\* C3 as stated: compare returns -1, 0 or 1 for all Literals, arrays of
\* different lengths with an equal shared prefix included.
C3_Original == cpc = "done" => cmp.r12 \in {-1, 0, 1}

\* The pairs of arrays compareValue(a, b) can come to compare: a and b, the
\* arrays at the same position in them, the sorted key lists of two objects.
RECURSIVE comparedArrays(_, _)
comparedArrays(a, b) ==
    IF isNull(a) \/ isNull(b) THEN {}
    ELSE IF isArray(a) /\ isArray(b)
    THEN {<<a.jv, b.jv>>}
            \cup UNION {comparedArrays(a.jv[i], b.jv[i]) :
                            i \in 1..Min(Len(a.jv), Len(b.jv))}
    ELSE IF isObject(a) /\ isObject(b)
    THEN {<<sortedKeys(a), sortedKeys(b)>>}
            \cup (IF DOMAIN a.jv = DOMAIN b.jv
                  THEN UNION {comparedArrays(a.jv[k], b.jv[k]) : k \in DOMAIN a.jv}
                  ELSE {})
    ELSE {}

\* C3, amended: compare returns -1, 0 or 1, except where two arrays of
\* different lengths with an equal shared prefix decide it: there it returns
\* the length of the first minus the length of the second.
C3_SignOrLengthDifference ==
    cpc = "done" =>
        \/ cmp.r12 \in {-1, 0, 1}
        \/ \E p \in comparedArrays(val1, val2) :
                /\ Len(p[1]) # Len(p[2])
                /\ compareElements(p[1], p[2], 1) = 0
                /\ cmp.r12 = Len(p[1]) - Len(p[2])

\* The empty array has been compared with an array of two elements.
C3_Witness ==
    /\ cpc = "done"
    /\ val1 = Arr(<<>>)
    /\ val2 = Arr(<<Num(1), Num(1)>>)
    /\ cmp.r12 = -2

-----------------------------------------------------------------------------
(* Task de-duplication: listId, listChildren, nestItems.                    *)

Digits == <<"0", "1", "2", "3", "4", "5", "6", "7", "8", "9">>

\* "" + n for a line number n.
RECURSIVE NumToStr(_)
NumToStr(n) ==
    IF n < 10 THEN <<Digits[n + 1]>>
    ELSE NumToStr(n \div 10) \o <<Digits[(n % 10) + 1]>>

listId(item) == item.path \o <<":">> \o NumToStr(item.line)

RECURSIVE listChildren(_, _)

\* The loop of listChildren over item.children, from position index on.
RECURSIVE listChildrenFrom(_, _, _)
listChildrenFrom(item, output, index) ==
    IF index > Len(item.children) THEN output
    ELSE LET child == item.children[index]
         IN  listChildrenFrom(item,
                              listChildren(child, output \cup {listId(child)}),
                              index + 1)

\* A plausible slip: the children are collected, their own children are not.
listChildrenDirect(item, output) ==
    output \cup {listId(item.children[i]) : i \in 1..Len(item.children)}

listChildren(item, output) == listChildrenFrom(item, output, 1)

\* The loop of nestItems over raw, from position index on: <<seen, mask>>.
RECURSIVE nestItemsLoop(_, _, _, _)
nestItemsLoop(items, seen, mask, index) ==
    IF index > Len(items) THEN <<seen, mask>>
    ELSE nestItemsLoop(items,
                       listChildren(items[index], seen),
                       mask \cup {listId(items[index])},
                       index + 1)

\* A plausible slip: the mask holds the kept items only.
nestItemsMaskOfKept(items) ==
    LET sets == nestItemsLoop(items, {}, {}, 1)
        seen == sets[1]
        keep(t) == listId(t) \notin seen
        kept == SelectSeq(items, keep)
    IN  [filtered |-> kept, mask |-> {listId(kept[i]) : i \in 1..Len(kept)}]

nestItems(items) ==
    LET sets == nestItemsLoop(items, {}, {}, 1)
        seen == sets[1]
        mask == sets[2]
        keep(t) == listId(t) \notin seen
    IN  [filtered |-> SelectSeq(items, keep), mask |-> mask]

-----------------------------------------------------------------------------
(* The list items nestItems is applied to: items of one index snapshot.     *)

PathA == <<"a">>
PathB == <<"b">>
Paths == {PathA, PathB}

\* The nestings of the list items at lines 0..MaxLine of a file: parent[l] is
\* the line of the item that holds the item at line l, or -1; it is an item
\* still open at line l - 1.
RECURSIVE Ancestors(_, _)
Ancestors(parent, l) ==
    IF parent[l] = -1 THEN {} ELSE {parent[l]} \cup Ancestors(parent, parent[l])

Nestings ==
    {parent \in [0..MaxLine -> -1..MaxLine] :
        /\ parent[0] = -1
        /\ \A l \in 1..MaxLine :
              parent[l] \in {-1, l - 1} \cup Ancestors(parent, l - 1)}

RECURSIVE SortLines(_)
SortLines(S) ==
    IF S = {} THEN <<>>
    ELSE LET m == CHOOSE x \in S : \A y \in S : x <= y
         IN  <<m>> \o SortLines(S \ {m})

\* The list item at line l of the file at path, with its subtree.
RECURSIVE ItemAt(_, _, _)
ItemAt(path, parent, l) ==
    LET kids == SortLines({c \in 0..MaxLine : parent[c] = l})
    IN  [path |-> path, line |-> l,
         children |-> [i \in 1..Len(kids) |-> ItemAt(path, parent, kids[i])]]

Items(parent) == {ItemAt(p, parent, l) : p \in Paths, l \in 0..MaxLine}

NestInit ==
    /\ \E parent \in Nestings : raw \in SeqsUpTo(Items(parent), MaxRoots)
    /\ rawIn = raw
    /\ npc = "start"
    /\ nest = [filtered |-> <<>>, mask |-> {}]
    /\ CompareIdle
    /\ RewriteIdle
    /\ CompletionIdle
    /\ CopyIdle

\* nestItems(raw): it builds its sets and a new array, and writes to neither
\* raw nor the items.
NestItems ==
    /\ npc = "start"
    /\ nest' = nestItems(raw)
    /\ npc' = "done"
    /\ UNCHANGED <<raw, rawIn>>
    /\ UNCHANGED <<cvars, rvars, tvars, hvars>>

NestNext == NestItems

SpecNest == NestInit /\ [][NestNext]_vars

\* The (path, line) of the strict descendants of the item.
RECURSIVE Descendants(_)
Descendants(item) ==
    UNION {{<<item.children[i].path, item.children[i].line>>}
                \cup Descendants(item.children[i]) : i \in 1..Len(item.children)}

Identity(item) == <<item.path, item.line>>

CoveredIn(items) == UNION {Descendants(items[i]) : i \in 1..Len(items)}

IsCovered(t) == Identity(t) \in CoveredIn(rawIn)

\* C4: the first component of nestItems(roots) is the subsequence, in order,
\* of the roots whose (path, line) is not that of a strict descendant of any
\* root; the array of roots, and the children of its items, are as before.
C4_KeepsUncoveredRoots ==
    npc = "done" =>
        /\ nest.filtered = SelectSeq(rawIn, LAMBDA t : ~IsCovered(t))
        /\ raw = rawIn

\* An item, its child and its grandchild have been handed over, the
\* grandchild first: the item alone comes back.
C4_Witness ==
    /\ npc = "done"
    /\ Len(rawIn) = 3
    /\ rawIn[1].line = 2 /\ rawIn[2].line = 0 /\ rawIn[3].line = 1
    /\ rawIn[2].path = rawIn[1].path /\ rawIn[3].path = rawIn[1].path
    /\ Identity(rawIn[1]) \in Descendants(rawIn[3])
    /\ Identity(rawIn[3]) \in Descendants(rawIn[2])
    /\ nest.filtered = <<rawIn[2]>>

InSeq(x, seq) == \E i \in 1..Len(seq) : seq[i] = x

\* The item c is one of the children of the item r.
IsChildOf(c, r) ==
    \E k \in 1..Len(r.children) : Identity(r.children[k]) = Identity(c)

\* C5 as stated: when a root C is also a child of another root R, the kept
\* items contain R and not C, and the mask contains the identity of R and
\* not the identity of C.
C5_Original ==
    npc = "done" =>
        \A i, j \in 1..Len(rawIn) :
            i # j /\ IsChildOf(rawIn[j], rawIn[i]) =>
                /\ InSeq(rawIn[i], nest.filtered)
                /\ ~InSeq(rawIn[j], nest.filtered)
                /\ listId(rawIn[i]) \in nest.mask
                /\ listId(rawIn[j]) \notin nest.mask

\* C5, amended: when a root C is also a child of another root R, the kept
\* items do not contain C, they contain R unless R is itself a strict
\* descendant of a root, and the mask contains the identity of every root,
\* that of R and that of C.
C5_ChildDroppedMaskOfAllRoots ==
    npc = "done" =>
        \A i, j \in 1..Len(rawIn) :
            i # j /\ IsChildOf(rawIn[j], rawIn[i]) =>
                /\ InSeq(rawIn[i], nest.filtered) <=> ~IsCovered(rawIn[i])
                /\ ~InSeq(rawIn[j], nest.filtered)
                /\ listId(rawIn[i]) \in nest.mask
                /\ listId(rawIn[j]) \in nest.mask

\* An item and its child have been handed over: the item comes back, and
\* a mask of the two.
C5_Witness ==
    /\ npc = "done"
    /\ Len(rawIn) = 2
    /\ IsChildOf(rawIn[2], rawIn[1])
    /\ nest.filtered = <<rawIn[1]>>
    /\ nest.mask = {listId(rawIn[1]), listId(rawIn[2])}

-----------------------------------------------------------------------------
(* Strings, as rewriteTask uses them.                                       *)

\* \s of a regular expression, and what String.prototype.trim removes.
WhiteSpace == {" ", "\t", "\n", "\r"}
\* What . of a regular expression does not match.
LineTerminators == {"\n", "\r"}
DigitChars == {Digits[i] : i \in 1..Len(Digits)}

\* String.prototype.contains / includes, for one character.
contains(s, c) == \E i \in 1..Len(s) : s[i] = c

FirstIndexOf(s, c) == CHOOSE i \in 1..Len(s) : s[i] = c /\ \A j \in 1..(i - 1) : s[j] # c

\* s.split(/\r?\n/u)
RECURSIVE splitLines(_)
splitLines(s) ==
    IF ~contains(s, "\n") THEN <<s>>
    ELSE LET i == FirstIndexOf(s, "\n")
             cut == IF i > 1 /\ s[i - 1] = "\r" THEN i - 2 ELSE i - 1
         IN  <<SubSeq(s, 1, cut)>> \o splitLines(SubSeq(s, i + 1, Len(s)))

\* s.split("\n")
RECURSIVE splitNewline(_)
splitNewline(s) ==
    IF ~contains(s, "\n") THEN <<s>>
    ELSE LET i == FirstIndexOf(s, "\n")
         IN  <<SubSeq(s, 1, i - 1)>> \o splitNewline(SubSeq(s, i + 1, Len(s)))

\* parts.join(sep)
RECURSIVE join(_, _)
join(parts, sep) ==
    IF Len(parts) = 0 THEN <<>>
    ELSE IF Len(parts) = 1 THEN parts[1]
    ELSE parts[1] \o sep \o join(Tail(parts), sep)

\* /^\s*/u.exec(s)[0]: the white space s starts with.
RECURSIVE leadingSpace(_)
leadingSpace(s) ==
    IF s # <<>> /\ Head(s) \in WhiteSpace THEN <<Head(s)>> \o leadingSpace(Tail(s))
    ELSE <<>>

RECURSIVE trimEnd(_)
trimEnd(s) ==
    IF s # <<>> /\ s[Len(s)] \in WhiteSpace THEN trimEnd(SubSeq(s, 1, Len(s) - 1))
    ELSE s

\* String.prototype.trim
trim(s) == LET t == trimEnd(s) IN SubSeq(t, Len(leadingSpace(t)) + 1, Len(t))

\* Array.prototype.splice(start, deleteCount, ...items), on the array itself.
splice(arr, start, deleteCount, items) ==
    LET from == Min(start, Len(arr))
        count == Min(IF deleteCount < 0 THEN 0 ELSE deleteCount, Len(arr) - from)
    IN  SubSeq(arr, 1, from) \o items \o SubSeq(arr, from + count + 1, Len(arr))

-----------------------------------------------------------------------------
(* LIST_ITEM_REGEX: leading white space, a marker (-, *, + or a number      *)
(* followed by . or parenthesis), white space, an optional [c] checkbox,    *)
(* white space, the body up to the end of the line.                         *)

\* How many digits s starts with.
RECURSIVE digitsAhead(_)
digitsAhead(s) ==
    IF s # <<>> /\ Head(s) \in DigitChars THEN 1 + digitsAhead(Tail(s)) ELSE 0

\* The length of the marker s starts with, 0 when it starts with none.
markerLength(s) ==
    IF s = <<>> THEN 0
    ELSE IF Head(s) \in {"*", "-", "+"} THEN 1
    ELSE LET d == digitsAhead(s)
         IN  IF d > 0 /\ d < Len(s) /\ s[d + 1] \in {".", ")"} THEN d + 1 ELSE 0

\* The length of the checkbox s starts with, 0 when it starts with none:
\* [c] for one character c of the line, or [].
checkboxLength(s) ==
    IF Len(s) >= 3 /\ s[1] = "[" /\ s[2] \notin LineTerminators /\ s[3] = "]" THEN 3
    ELSE IF Len(s) >= 2 /\ s[1] = "[" /\ s[2] = "]" THEN 2
    ELSE 0

\* LIST_ITEM_REGEX.exec(line): Null, or the captures 1 to 3; the capture of
\* an absent checkbox is Undefined.
listItemExec(line) ==
    LET afterSpace == SubSeq(line, Len(leadingSpace(line)) + 1, Len(line))
        m == markerLength(afterSpace)
        afterMarker == SubSeq(afterSpace, m + 1, Len(afterSpace))
        beforeBox == SubSeq(afterMarker, Len(leadingSpace(afterMarker)) + 1, Len(afterMarker))
        c == checkboxLength(beforeBox)
        afterBox == SubSeq(beforeBox, c + 1, Len(beforeBox))
        body == SubSeq(afterBox, Len(leadingSpace(afterBox)) + 1, Len(afterBox))
    IN  IF m = 0 \/ \E i \in 1..Len(body) : body[i] \in LineTerminators THEN Null
        ELSE [js |-> "match",
              jv |-> <<Str(SubSeq(afterSpace, 1, m)),
                       IF c = 0 THEN Undefined ELSE Str(SubSeq(beforeBox, 1, c)),
                       Str(body)>>]

-----------------------------------------------------------------------------
(* rewriteTask.                                                             *)

\* A plausible slip: a replacement text equal to the text is not recognised.
nothingToRewriteUnlessText(task, desiredStatus, desiredText) ==
    /\ desiredStatus = task.status
    /\ desiredText = Undefined

\* The condition of the first return: there is nothing to rewrite.
nothingToRewrite(task, desiredStatus, desiredText) ==
    /\ desiredStatus = task.status
    /\ (desiredText = Undefined \/ desiredText = Str(task.text))

\* desiredStatus == "" ? " " : desiredStatus
normalizeStatus(desiredStatus) == IF desiredStatus = <<>> THEN <<" ">> ELSE desiredStatus

\* filetext[task.line] as exec reads it: a missing element reads "undefined".
addressedLine(filetext, task) ==
    IF task.line < Len(filetext) THEN filetext[task.line + 1]
    ELSE <<"u", "n", "d", "e", "f", "i", "n", "e", "d">>

\* A plausible slip: the indentation of the line is dropped.
statusLineUnindented(initialSpacing, symbol, desiredStatus, text) ==
    symbol \o <<" ", "[">> \o desiredStatus \o <<"]", " ">> \o text

\* `${initialSpacing}${task.symbol} [${desiredStatus}] ${text}`
statusLine(initialSpacing, symbol, desiredStatus, text) ==
    initialSpacing \o symbol \o <<" ", "[">> \o desiredStatus \o <<"]", " ">> \o text

\* The lines that replace the task when desiredText is given.
newTextLines(initialSpacing, task, desiredStatus, desiredText) ==
    LET desiredParts == splitNewline(desiredText.jv)
    IN  <<statusLine(initialSpacing, task.symbol, desiredStatus, desiredParts[1])>>
            \o [i \in 1..(Len(desiredParts) - 1) |->
                    initialSpacing \o <<"\t">> \o desiredParts[i + 1]]

\* The lines of the file after the rewrite of the status, the guards passed.
rewrittenLines(filetext, task, desiredStatus, desiredText) ==
    LET taskTextParts == splitNewline(task.text)
        initialSpacing == leadingSpace(filetext[task.line + 1])
    IN  IF Truthy(desiredText)
        THEN splice(filetext, task.line, task.lineCount,
                    newTextLines(initialSpacing, task, desiredStatus, desiredText))
        ELSE [filetext EXCEPT ![task.line + 1] =
                statusLine(initialSpacing, task.symbol, desiredStatus,
                           trim(taskTextParts[1]))]

\* rewriteTask from the text that was read to its next await or its end:
\* "return", "throw" (match[2].length of an absent capture), or "write" with
\* the text to write.
afterRead(task, desiredStatus, desiredText, rawFiletext) ==
    LET hasRN == contains(rawFiletext, "\r")
        filetext == splitLines(rawFiletext)
        match == listItemExec(addressedLine(filetext, task))
        taskTextParts == splitNewline(task.text)
    IN  IF Len(filetext) < task.line THEN [kind |-> "return", newText |-> <<>>]
        ELSE IF match = Null THEN [kind |-> "return", newText |-> <<>>]
        ELSE IF match.jv[2] = Undefined THEN [kind |-> "throw", newText |-> <<>>]
        ELSE IF Len(match.jv[2].jv) = 0 THEN [kind |-> "return", newText |-> <<>>]
        ELSE IF trim(taskTextParts[1]) # trim(match.jv[3].jv)
             THEN [kind |-> "return", newText |-> <<>>]
        ELSE [kind |-> "write",
              newText |-> join(rewrittenLines(filetext, task, desiredStatus, desiredText),
                               IF hasRN THEN <<"\r", "\n">> ELSE <<"\n">>)]

-----------------------------------------------------------------------------
(* The documents, the cached tasks and the arguments of the model.          *)

\* "- [ ] a": an unchecked task.
LineTask == <<"-", " ", "[", " ", "]", " ", "a">>
\* "\t* [X] a": a checked task, indented, with another marker.
LineStarTask == <<"\t", "*", " ", "[", "X", "]", " ", "a">>
\* "- a": a list item that has no checkbox.
LinePlainItem == <<"-", " ", "a">>
\* "\tb": a further line of the body of a task.
LineBody == <<"\t", "b">>
\* "b\ra": text that holds a carriage return of its own.
LineLoneCR == <<"b", "\r", "a">>
LineEmpty == <<>>
\* "- [ ] ": a task with an empty body.
LineEmptyTask == <<"-", " ", "[", " ", "]", " ">>
\* "-": a list item with no checkbox and an empty body.
LineBareMarker == <<"-">>

DocLines ==
    {LineTask, LineStarTask, LinePlainItem, LineBody, LineLoneCR, LineEmpty, LineEmptyTask,
     LineBareMarker}

LF == <<"\n">>
CRLF == <<"\r", "\n">>

\* The text of the lines, each but the last followed by its terminator.
RECURSIVE textOf(_, _)
textOf(lines, terminators) ==
    IF Len(lines) = 1 THEN lines[1]
    ELSE lines[1] \o terminators[1] \o textOf(Tail(lines), Tail(terminators))

\* The documents: up to MaxDocLines lines, LF or CRLF after each but the last.
Documents ==
    {textOf(lines, terminators) :
        <<lines, terminators>> \in
            UNION {[1..n -> DocLines] \X [1..(n - 1) -> {LF, CRLF}] : n \in 1..MaxDocLines}}

\* The document at PathB: one unchecked task.
DocB == <<"-", " ", "[", " ", "]", " ", "b">>

TextA == <<"a">>
TextAB == <<"a", "\n", "b">>
TextB == <<"b">>
TextBAB == <<"b", "\n", "a", "\n", "b">>

Checked == <<"X">>
Unchecked == <<" ">>

TaskOf(path, line, text, status) ==
    [path |-> path, line |-> line, lineCount |-> Len(splitNewline(text)),
     text |-> text, symbol |-> <<"-">>, status |-> status]

\* The task nodes the index may have cached, up to date or stale: at any line
\* up to one past the last, of one or two lines.
CachedTasks ==
    {TaskOf(PathA, line, text, status) :
        line \in 0..MaxDocLines, text \in {TextA, TextAB, TextB, <<>>},
        status \in {Unchecked, Checked}}
        \cup {TaskOf(PathB, 0, TextB, Unchecked)}

DesiredStatuses == {Checked, Unchecked, <<>>}
DesiredTexts == {Undefined, Str(<<>>), Str(TextA), Str(TextAB), Str(TextBAB)}

-----------------------------------------------------------------------------
(* rewriteTask as a process: the call, the read, the write.                 *)

IdleCall(task) ==
    [pc |-> "idle", task |-> task, desiredStatus |-> <<>>, desiredText |-> Undefined,
     rawFiletext |-> <<>>, newText |-> <<>>, error |-> "none"]

Init ==
    /\ \E doc \in Documents :
          vault = [path \in Paths |-> IF path = PathA THEN doc ELSE DocB]
    /\ \E task \in CachedTasks : call = <<IdleCall(task)>>
    /\ io = <<>>
    /\ CompareIdle
    /\ NestIdle
    /\ CompletionIdle
    /\ CopyIdle

\* rewriteTask(vault, task, desiredStatus, desiredText) up to its first await:
\* it returns at once, or issues the read.
CallWith(p, desiredStatus, desiredText) ==
    /\ call[p].pc = "idle"
    /\ LET task == call[p].task
       IN  IF nothingToRewrite(task, desiredStatus, desiredText)
           THEN /\ call' = [call EXCEPT ![p].pc = "done",
                                        ![p].desiredStatus = desiredStatus,
                                        ![p].desiredText = desiredText]
                /\ io' = io
           ELSE /\ call' = [call EXCEPT ![p].pc = "reading",
                                        ![p].desiredStatus = desiredStatus,
                                        ![p].desiredText = desiredText]
                /\ io' = Append(io, [op |-> "read", path |-> task.path, by |-> p])
    /\ UNCHANGED vault
    /\ UNCHANGED <<cvars, nvars, tvars, hvars>>

\* A caller invokes rewriteTask with a status and a text of its choice.
Call(p) ==
    \E desiredStatus \in DesiredStatuses, desiredText \in DesiredTexts :
        CallWith(p, desiredStatus, desiredText)

\* The read resolves with the text of the file; rewriteTask runs on to its
\* return, to its exception, or to the write it issues.
ReadResolves(p) ==
    /\ call[p].pc = "reading"
    /\ LET c == call[p]
           rawFiletext == vault[c.task.path]
           out == afterRead(c.task, normalizeStatus(c.desiredStatus), c.desiredText,
                            rawFiletext)
       IN  /\ call' = [call EXCEPT
                         ![p].rawFiletext = rawFiletext,
                         ![p].newText = out.newText,
                         ![p].pc = CASE out.kind = "return" -> "done"
                                     [] out.kind = "throw" -> "failed"
                                     [] out.kind = "write" -> "writing",
                         ![p].error = IF out.kind = "throw" THEN "TypeError" ELSE "none"]
           /\ io' = IF out.kind = "write"
                    THEN Append(io, [op |-> "write", path |-> c.task.path, by |-> p])
                    ELSE io
    /\ UNCHANGED vault
    /\ UNCHANGED <<cvars, nvars, tvars, hvars>>

\* A plausible slip: the rejection of the read is caught and the file is
\* written all the same.
ReadRejectsWriteAnyway(p) ==
    /\ call[p].pc = "reading"
    /\ call' = [call EXCEPT ![p].pc = "failed", ![p].error = "read"]
    /\ io' = Append(io, [op |-> "write", path |-> call[p].task.path, by |-> p])
    /\ UNCHANGED vault
    /\ UNCHANGED <<cvars, nvars, tvars, hvars>>

\* The read rejects: the await throws and rewriteTask ends rejected.
ReadRejects(p) ==
    /\ call[p].pc = "reading"
    /\ call' = [call EXCEPT ![p].pc = "failed", ![p].error = "read"]
    /\ UNCHANGED <<vault, io>>
    /\ UNCHANGED <<cvars, nvars, tvars, hvars>>

\* The write resolves: the file holds the new text, rewriteTask returns.
WriteResolves(p) ==
    /\ call[p].pc = "writing"
    /\ vault' = [vault EXCEPT ![call[p].task.path] = call[p].newText]
    /\ call' = [call EXCEPT ![p].pc = "done"]
    /\ UNCHANGED io
    /\ UNCHANGED <<cvars, nvars, tvars, hvars>>

\* The write rejects: the file is as it was, rewriteTask ends rejected.
WriteRejects(p) ==
    /\ call[p].pc = "writing"
    /\ call' = [call EXCEPT ![p].pc = "failed", ![p].error = "write"]
    /\ UNCHANGED <<vault, io>>
    /\ UNCHANGED <<cvars, nvars, tvars, hvars>>

Invoke == \E p \in DOMAIN call : Call(p)
ReadDone == \E p \in DOMAIN call : ReadResolves(p)
ReadFailed == \E p \in DOMAIN call : ReadRejects(p)
WriteDone == \E p \in DOMAIN call : WriteResolves(p)
WriteFailed == \E p \in DOMAIN call : WriteRejects(p)

Next ==
    \/ Invoke
    \/ ReadDone
    \/ ReadFailed
    \/ WriteDone
    \/ WriteFailed

Spec == Init /\ [][Next]_vars

-----------------------------------------------------------------------------
(* What an invocation has done so far, read off the log and its position.   *)

ReadIssued(p) == \E i \in 1..Len(io) : io[i].op = "read" /\ io[i].by = p
WriteIssued(p) == \E i \in 1..Len(io) : io[i].op = "write" /\ io[i].by = p
\* The read of p resolved: p went on with the text in call[p].rawFiletext.
ReadResolved(p) ==
    ReadIssued(p) /\ call[p].pc # "reading" /\ call[p].error # "read"

\* C6: rewriteTask does no I/O, neither read nor write, whenever
\* desiredStatus equals the status of the node and desiredText is absent or
\* equal to the text of the node.
C6_NothingToRewriteNoIO ==
    \A p \in DOMAIN call :
        LET c == call[p]
        IN  (/\ c.pc # "idle"
             /\ c.desiredStatus = c.task.status
             /\ (c.desiredText = Undefined
                    \/ (c.desiredText # Undefined /\ c.desiredText.jv = c.task.text)))
            => /\ c.pc = "done"
               /\ ~ReadIssued(p)
               /\ ~WriteIssued(p)
               /\ io = <<>>

\* A checked task has been asked to be checked, with its own two lines of
\* text as the replacement: rewriteTask has returned, nothing read or written.
C6_Witness ==
    /\ call # <<>>
    /\ call[1].pc = "done"
    /\ call[1].task.status = Checked
    /\ call[1].desiredStatus = Checked
    /\ call[1].task.text = TextAB
    /\ call[1].desiredText = Str(TextAB)
    /\ io = <<>>

\* The trimmed first line of the text of the node, and the trimmed body the
\* list-item grammar captures from the line at task.line of the text read.
CachedFirstLine(c) == trim(splitNewline(c.task.text)[1])
LinesRead(c) == splitLines(c.rawFiletext)
LineMatched(c) ==
    /\ c.task.line < Len(LinesRead(c))
    /\ listItemExec(LinesRead(c)[c.task.line + 1]) # Null
BodyRead(c) == trim(listItemExec(LinesRead(c)[c.task.line + 1]).jv[3].jv)

\* C7: whenever the trimmed first line of task.text differs from the trimmed
\* body captured from the line at task.line of the document, rewriteTask
\* writes nothing, the document is as it was, and no error is reported.
C7_StaleTextSilentNoWrite ==
    \A p \in DOMAIN call :
        LET c == call[p]
        IN  (ReadResolved(p) /\ LineMatched(c) /\ CachedFirstLine(c) # BodyRead(c))
            => /\ ~WriteIssued(p)
               /\ vault[c.task.path] = c.rawFiletext
               /\ c.pc = "done"
               /\ c.error = "none"

\* The status between the brackets: desiredStatus, the empty one made a space.
StatusWritten(c) == IF c.desiredStatus = <<>> THEN <<" ">> ELSE c.desiredStatus
LinesWritten(c) == splitLines(c.newText)
Indent(c) == leadingSpace(LinesRead(c)[c.task.line + 1])

\* C8: when rewriteTask passes its guards with no replacement text, the text
\* written has as many lines as the text read; its line at task.line is the
\* leading white space of the line read, the marker of the node, the desired
\* status in brackets (the empty status written as a space) and the trimmed
\* first line of the text of the node; every other line is as read.
C8_OnlyStatusLineRewritten ==
    \A p \in DOMAIN call :
        LET c == call[p]
        IN  (WriteIssued(p) /\ c.desiredText = Undefined)
            => /\ Len(LinesWritten(c)) = Len(LinesRead(c))
               /\ LinesWritten(c)[c.task.line + 1] =
                    Indent(c) \o c.task.symbol \o <<" ", "[">> \o StatusWritten(c)
                        \o <<"]", " ">> \o CachedFirstLine(c)
               /\ \A i \in 1..Len(LinesRead(c)) :
                    i # c.task.line + 1 => LinesWritten(c)[i] = LinesRead(c)[i]
               /\ (c.pc = "done" => vault[c.task.path] = c.newText)

\* The document "- [ ] a\n" has become "- [X] a\n" under the status "X".
C8_Witness ==
    /\ call # <<>>
    /\ call[1].pc = "done"
    /\ call[1].desiredText = Undefined
    /\ call[1].desiredStatus = Checked
    /\ call[1].rawFiletext = <<"-", " ", "[", " ", "]", " ", "a", "\n">>
    /\ vault[PathA] = <<"-", " ", "[", "X", "]", " ", "a", "\n">>

\* The lines that C9 puts in the place of the task.
Replacement(c) ==
    LET parts == splitNewline(c.desiredText.jv)
    IN  [i \in 1..Len(parts) |->
            IF i = 1
            THEN Indent(c) \o c.task.symbol \o <<" ", "[">> \o StatusWritten(c)
                    \o <<"]", " ">> \o parts[1]
            ELSE Indent(c) \o <<"\t">> \o parts[i]]

\* C9: when rewriteTask passes its guards with a replacement text supplied,
\* the text written is the text read with the lineCount lines from task.line
\* replaced by the replacement lines, the first as indent, marker, status in
\* brackets and first line, the later ones as indent, tab and line; the lines
\* before and the lines from task.line + lineCount on are kept as they were.
C9_ReplacementSpliced ==
    \A p \in DOMAIN call :
        LET c == call[p]
        IN  (WriteIssued(p) /\ c.desiredText # Undefined)
            => LinesWritten(c) =
                    SubSeq(LinesRead(c), 1, c.task.line) \o Replacement(c)
                        \o SubSeq(LinesRead(c), c.task.line + c.task.lineCount + 1,
                                  Len(LinesRead(c)))

\* The terminators of the lines of a text, in order: one after each line but
\* the last.
RECURSIVE terminatorsOf(_)
terminatorsOf(s) ==
    IF ~contains(s, "\n") THEN <<>>
    ELSE LET i == FirstIndexOf(s, "\n")
         IN  <<IF i > 1 /\ s[i - 1] = "\r" THEN CRLF ELSE LF>>
                \o terminatorsOf(SubSeq(s, i + 1, Len(s)))

\* C10: a rewriteTask that writes keeps every line terminator outside the
\* lines of the task as it was read, whatever the document mixes: those of
\* the lines before the task, and those of the lines after it.
C10_TerminatorsKept ==
    \A p \in DOMAIN call :
        LET c == call[p]
            old == terminatorsOf(c.rawFiletext)
            new == terminatorsOf(c.newText)
            n == Len(LinesRead(c))
            first == c.task.line + 1
            last == IF Truthy(c.desiredText)
                    THEN Min(c.task.line + c.task.lineCount, n)
                    ELSE first
            shift == Len(LinesWritten(c)) - n
        IN  WriteIssued(p)
            => /\ \A i \in 1..(first - 1) : i <= Len(new) /\ new[i] = old[i]
               /\ \A i \in (last + 1)..(n - 1) :
                    i + shift \in 1..Len(new) /\ new[i + shift] = old[i]

-----------------------------------------------------------------------------
(* rewriteTask invoked twice in sequence with the same task node.           *)

\* Two invocations are to come, both with the one task node the renderer holds.
TwiceInit ==
    /\ \E doc \in Documents :
          vault = [path \in Paths |-> IF path = PathA THEN doc ELSE DocB]
    /\ \E task \in CachedTasks : call = <<IdleCall(task), IdleCall(task)>>
    /\ io = <<>>
    /\ CompareIdle
    /\ NestIdle
    /\ CompletionIdle
    /\ CopyIdle

\* The first invocation.
First == Call(1)

\* The second invocation: once the first has settled, with the arguments of
\* the first; the task node is the same object, nothing has updated it.
Second ==
    /\ call[1].pc \in {"done", "failed"}
    /\ CallWith(2, call[1].desiredStatus, call[1].desiredText)

TwiceNext ==
    \/ First
    \/ Second
    \/ ReadDone
    \/ ReadFailed
    \/ WriteDone
    \/ WriteFailed

SpecTwice == TwiceInit /\ [][TwiceNext]_vars

\* The document of the task of invocation p as p left it, while no later
\* invocation has written: what p wrote, else what p read, else the document.
DocumentAfter(p) ==
    IF WriteIssued(p) /\ call[p].pc = "done" THEN call[p].newText
    ELSE IF ReadResolved(p) THEN call[p].rawFiletext
    ELSE vault[call[p].task.path]

\* C11: rewriteTask invoked twice in sequence with the same stale task node,
\* the same desired status and the same desired text leaves the document as
\* one invocation leaves it, also when the replacement text keeps the first
\* line and has another number of lines than lineCount.
C11_TwiceIsOnce ==
    (/\ Len(call) = 2
     /\ call[1].pc = "done"
     /\ call[2].pc = "done"
     /\ call[2].task = call[1].task
     /\ call[2].desiredStatus = call[1].desiredStatus
     /\ call[2].desiredText = call[1].desiredText)
    => vault[call[1].task.path] = DocumentAfter(1)

-----------------------------------------------------------------------------
(* setTaskCompletion, and the inline field it sets or removes.              *)

\* Most lines of a text handed to setTaskCompletion.
MaxTextLines == 3

\* settings.taskCompletionText: the key that tracks the completion of a task.
CompletionKey == <<"c">>

\* `[${key}:: ${value}]`: an inline field as it is written into a text.
annotation(key, value) == <<"[">> \o key \o <<":", ":", " ">> \o value \o <<"]">>

\* The index in source of the "]" that closes the inline field opened at
\* start, on the same line; 0 if there is none.
fieldEnd(source, start) ==
    LET closers == {j \in start..Len(source) :
                        /\ source[j] = "]"
                        /\ \A k \in start..j : source[k] \notin LineTerminators}
    IN  IF closers = {} THEN 0 ELSE CHOOSE j \in closers : \A k \in closers : j <= k

\* The index in source at which the first inline field of the key opens; 0 if
\* the source holds none.
fieldStart(source, key) ==
    LET opener == <<"[">> \o key \o <<":", ":">>
        starts == {i \in 1..Len(source) :
                        /\ i + Len(opener) - 1 <= Len(source)
                        /\ SubSeq(source, i, i + Len(opener) - 1) = opener
                        /\ fieldEnd(source, i) # 0}
    IN  IF starts = {} THEN 0 ELSE CHOOSE i \in starts : \A k \in starts : i <= k

\* setInlineField(source, key, value): the field of the key is set to the
\* value, appended if the source has none; with no value it is removed.
setInlineField(source, key, value) ==
    LET start == fieldStart(source, key)
        prefix == SubSeq(source, 1, start - 1)
        suffix == SubSeq(source, fieldEnd(source, start) + 1, Len(source))
    IN  IF start = 0
        THEN IF Truthy(value)
             THEN trimEnd(source) \o <<" ">> \o annotation(key, value.jv)
             ELSE source
        ELSE IF Truthy(value)
             THEN prefix \o annotation(key, value.jv) \o suffix
             ELSE prefix \o SubSeq(suffix, Len(leadingSpace(suffix)) + 1, Len(suffix))

\* while (trim > 0 && parts[trim].trim() == "") trim--;
RECURSIVE trimIndex(_, _)
trimIndex(parts, index) ==
    IF index > 0 /\ trim(parts[index + 1]) = <<>> THEN trimIndex(parts, index - 1)
    ELSE index

\* trimEndingLines(text): it finds the last line that is not blank, and
\* returns every line of parts joined, whatever it found.
trimEndingLines(text) ==
    LET parts == splitLines(text)
        lastLine == trimIndex(parts, Len(parts) - 1)
    IN  join(parts, <<"\n">>)

\* setTaskCompletion(originalText, completionKey, complete), today being
\* DateTime.now().toISODate().
setTaskCompletion(text, completionKey, completed, today) ==
    IF ~completed
    THEN trimEndingLines(setInlineField(text, completionKey, Undefined))
    ELSE LET parts == splitLines(text)
         IN  join([parts EXCEPT ![Len(parts)] =
                        setInlineField(parts[Len(parts)], completionKey, Str(today))],
                  <<"\n">>)

\* The lines of the texts: "a", "", " ", "[c:: d]", "a [c:: d]".
FieldCD == <<"[", "c", ":", ":", " ", "d", "]">>
TextLines == {<<"a">>, <<>>, <<" ">>, FieldCD, <<"a", " ">> \o FieldCD}

\* The texts: up to MaxTextLines lines, at most one of them with the field.
CompletionTexts ==
    {textOf(lines, terminators) :
        <<lines, terminators>> \in
            UNION {{l \in [1..n -> TextLines] :
                        Cardinality({i \in 1..n : fieldStart(l[i], CompletionKey) # 0}) <= 1}
                   \X [1..(n - 1) -> {LF, CRLF}] : n \in 1..MaxTextLines}}

\* The dates DateTime.now().toISODate() may give: "2021-01-01", "2021-01-02".
ISODates ==
    {<<"2", "0", "2", "1", "-", "0", "1", "-", "0", day>> : day \in {"1", "2"}}

CompletionInit ==
    /\ originalText \in CompletionTexts
    /\ complete \in BOOLEAN
    /\ completion = Undefined
    /\ CompareIdle
    /\ NestIdle
    /\ RewriteIdle
    /\ CopyIdle

SetTaskCompletion ==
    /\ completion = Undefined
    /\ \E today \in ISODates :
          completion' = Str(setTaskCompletion(originalText, CompletionKey, complete, today))
    /\ UNCHANGED <<originalText, complete>>
    /\ UNCHANGED <<cvars, nvars, rvars, hvars>>

CompletionNext == SetTaskCompletion

SpecCompletion == CompletionInit /\ [][CompletionNext]_vars

\* How many blank lines end the lines, the first line never counted.
RECURSIVE BlankTail(_)
BlankTail(lines) ==
    IF Len(lines) > 1 /\ \A i \in 1..Len(lines[Len(lines)]) : lines[Len(lines)][i] \in WhiteSpace
    THEN 1 + BlankTail(SubSeq(lines, 1, Len(lines) - 1))
    ELSE 0

\* C12: setTaskCompletion(text, key, false) returns no trailing blank lines:
\* when the text left after the removal of the completion field ends in
\* empty or white-space-only lines after at least one earlier line, the
\* result is that text without those lines.
C12_NoTrailingBlankLines ==
    (completion # Undefined /\ ~complete)
    => LET left == splitLines(setInlineField(originalText, CompletionKey, Undefined))
       IN  BlankTail(left) > 0
           => splitLines(completion.jv) = SubSeq(left, 1, Len(left) - BlankTail(left))

-----------------------------------------------------------------------------
(* deepCopy, on values with identity: arrays, objects and the other objects *)
(* live in the heap, and a value is a primitive or a reference to a cell.   *)

\* Most mutations of the copy after deepCopy.
MaxMutations == 1

\* A reference to the heap cell at an address.
Ref(address) == [js |-> "ref", jv |-> address]

\* The runtime value a primitive or a reference stands for: the cell itself.
valueAt(h, x) == IF x.js = "ref" THEN h[x.jv] ELSE x

\* The value with every reference replaced by what it refers to.
RECURSIVE reify(_, _)
reify(h, x) ==
    LET target == valueAt(h, x)
    IN  IF target.js = "Array"
        THEN Arr([i \in 1..Len(target.jv) |-> reify(h, target.jv[i])])
        ELSE IF target.js = "Object"
        THEN Obj([k \in DOMAIN target.jv |-> reify(h, target.jv[k])])
        ELSE target

\* A plausible slip: a copy of the top level only, its elements shared.
RECURSIVE deepCopyShallow(_, _)
deepCopyShallow(h, x) ==
    IF x = Null \/ x = Undefined THEN [value |-> x, heap |-> h]
    ELSE IF isArray(valueAt(h, x)) \/ isObject(valueAt(h, x))
    THEN [value |-> Ref(Len(h) + 1), heap |-> Append(h, valueAt(h, x))]
    ELSE [value |-> x, heap |-> h]

\* deepCopy(field) in the heap h: the value returned and the heap after it.
\* field.map(v => deepCopy(v)) copies the elements from the first on, and
\* [].concat of it allocates the array returned; an object is filled key by
\* key.
RECURSIVE deepCopy(_, _)
RECURSIVE copyElements(_, _, _, _)
RECURSIVE copyEntries(_, _, _, _, _)

copyElements(h, elements, index, copied) ==
    IF index > Len(elements) THEN [value |-> copied, heap |-> h]
    ELSE LET c == deepCopy(h, elements[index])
         IN  copyElements(c.heap, elements, index + 1, Append(copied, c.value))

copyEntries(h, object, keys, index, result) ==
    IF index > Len(keys) THEN [value |-> result, heap |-> h]
    ELSE LET c == deepCopy(h, object[keys[index]])
         IN  copyEntries(c.heap, object, keys, index + 1,
                         [k \in DOMAIN result \cup {keys[index]} |->
                             IF k = keys[index] THEN c.value ELSE result[k]])

deepCopy(h, x) ==
    IF x = Null \/ x = Undefined THEN [value |-> x, heap |-> h]
    ELSE IF isArray(valueAt(h, x))
    THEN LET c == copyElements(h, valueAt(h, x).jv, 1, <<>>)
         IN  [value |-> Ref(Len(c.heap) + 1), heap |-> Append(c.heap, Arr(c.value))]
    ELSE IF isObject(valueAt(h, x))
    THEN LET c == copyEntries(h, valueAt(h, x).jv,
                              SortStrings(DOMAIN valueAt(h, x).jv), 1, <<>>)
         IN  [value |-> Ref(Len(c.heap) + 1), heap |-> Append(c.heap, Obj(c.value))]
    ELSE [value |-> x, heap |-> h]

\* The cells a value reaches: its own and those of its elements, at any depth.
RECURSIVE reachable(_, _)
reachable(h, x) ==
    IF x.js # "ref" THEN {}
    ELSE {x.jv} \cup
         (IF h[x.jv].js = "Array"
          THEN UNION {reachable(h, h[x.jv].jv[i]) : i \in 1..Len(h[x.jv].jv)}
          ELSE IF h[x.jv].js = "Object"
          THEN UNION {reachable(h, h[x.jv].jv[k]) : k \in DOMAIN h[x.jv].jv}
          ELSE {})

\* The arrays and objects a value reaches.
containers(h, x) == {a \in reachable(h, x) : h[a].js \in {"Array", "Object"}}

\* What an array or object can become by one push, pop, assignment to an
\* index, assignment to a key, or delete of a key.
mutated(cell) ==
    IF cell.js = "Array"
    THEN {Arr(Append(cell.jv, Num(3)))}
            \cup {Arr(SubSeq(cell.jv, 1, Len(cell.jv) - 1)) : i \in {1} \cap DOMAIN cell.jv}
            \cup {Arr([cell.jv EXCEPT ![i] = Num(3)]) : i \in DOMAIN cell.jv}
    ELSE {Obj([k \in DOMAIN cell.jv \cup {key} |-> IF k = key THEN Num(3) ELSE cell.jv[k]]) :
                key \in Keys}
            \cup {Obj([k \in DOMAIN cell.jv \ {key} |-> cell.jv[k]]) : key \in DOMAIN cell.jv}

\* Most cells of the heap before deepCopy.
HeapSize == 3

\* What the cell at an address may hold at the start: an object of another
\* tag, or an array or an object of numbers and of references to the cells
\* before it.
CellsAt(address) ==
    LET elements == {Num(1)} \cup {Ref(a) : a \in 1..(address - 1)}
    IN  {DateTimeOf(0, "UTC"), LinkOf(StrA, "file", Undefined)}
            \cup {Arr(<<>>)} \cup {Arr(<<x>>) : x \in elements}
            \cup {Arr(<<x, y>>) : x \in elements, y \in elements}
            \cup {Obj(f) : f \in UNION {[K -> elements] : K \in SUBSET {StrA}}}

\* The heaps of a number of cells.
RECURSIVE Heaps(_)
Heaps(size) ==
    IF size = 0 THEN {<<>>}
    ELSE {Append(h, cell) : h \in Heaps(size - 1), cell \in CellsAt(size)}

CopyInit ==
    /\ heap \in Heaps(HeapSize)
    /\ field \in {Ref(a) : a \in 1..HeapSize}
                    \cup {Null, Undefined, Num(1), Str(StrA)}
    /\ copy = Undefined
    /\ hpc = 0
    /\ CompareIdle
    /\ NestIdle
    /\ RewriteIdle
    /\ CompletionIdle

\* copy = Values.deepCopy(field)
DeepCopy ==
    /\ hpc = 0
    /\ LET c == deepCopy(heap, field)
       IN  /\ copy' = c.value
           /\ heap' = c.heap
    /\ hpc' = 1
    /\ UNCHANGED field
    /\ UNCHANGED <<cvars, nvars, rvars, tvars>>

\* The caller changes an array or an object of the copy, at any depth.
Mutate ==
    /\ hpc \in 1..MaxMutations
    /\ \E a \in containers(heap, copy) :
          \E cell \in mutated(heap[a]) : heap' = [heap EXCEPT ![a] = cell]
    /\ hpc' = hpc + 1
    /\ UNCHANGED <<field, copy>>
    /\ UNCHANGED <<cvars, nvars, rvars, tvars>>

CopyNext ==
    \/ DeepCopy
    \/ Mutate

SpecCopy == CopyInit /\ [][CopyNext]_vars

\* The tag of the value is array or object.
IsContainer(h, x) == x.js = "ref" /\ h[x.jv].js \in {"Array", "Object"}

\* C13: for every Literal x, compare(deepCopy(x), x) = 0; the copy of an
\* array or object shares no array or object with x at any depth, so that
\* adding, removing or replacing an element of the copy or of anything nested
\* in it leaves x and everything nested in x as it was; a value of any other
\* tag is returned by reference.
C13_DeepCopyIndependent ==
    /\ [](hpc = 1 => compare(reify(heap, copy), reify(heap, field)) = 0)
    /\ [](hpc >= 1 =>
            IF IsContainer(heap, field)
            THEN /\ IsContainer(heap, copy)
                 /\ containers(heap, copy) \cap containers(heap, field) = {}
            ELSE copy = field)
    /\ [][hpc >= 1 =>
            /\ reify(heap', field') = reify(heap, field)
            /\ \A a \in reachable(heap, field) : heap'[a] = heap[a]]_vars

\* The array [[1], 1] has been copied and 3 pushed onto the array nested in
\* the copy; the array nested in the original still holds 1 only.
C13_Witness ==
    /\ hpc = 2
    /\ reify(heap, field) = Arr(<<Arr(<<Num(1)>>), Num(1)>>)
    /\ reify(heap, copy) = Arr(<<Arr(<<Num(1), Num(3)>>), Num(1)>>)

-----------------------------------------------------------------------------
(* The operations that branch on isObject: mapLeaves, isElementGroup,       *)
(* isGrouping.                                                              *)

\* An exception thrown instead of a value returned.
Throw(name) == [js |-> "throw", jv |-> name]

\* func(val), for the functions handed to mapLeaves: the first returns its
\* argument, any other returns null.
applyLeaf(func, val) == IF func.jv = 1 THEN val ELSE Null

\* Values.mapLeaves(val, func).  Object.entries(null) throws a TypeError.
RECURSIVE mapLeaves(_, _)
mapLeaves(val, func) ==
    IF isObject(val)
    THEN IF val = Null THEN Throw("TypeError")
         ELSE LET result == [key \in DOMAIN val.jv |-> mapLeaves(val.jv[key], func)]
              IN  IF \E key \in DOMAIN result : result[key].js = "throw"
                  THEN Throw("TypeError")
                  ELSE Obj(result)
    ELSE IF isArray(val)
    THEN LET result == [i \in 1..Len(val.jv) |-> mapLeaves(val.jv[i], func)]
         IN  IF \E i \in 1..Len(result) : result[i].js = "throw"
             THEN Throw("TypeError")
             ELSE Arr(result)
    ELSE applyLeaf(func, val)

KeyKey == <<"k", "e", "y">>
KeyRows == <<"r", "o", "w", "s">>

\* Groupings.isElementGroup(entry).  Object.keys(null) throws a TypeError.
isElementGroup(entry) ==
    IF ~isObject(entry) THEN Bool(FALSE)
    ELSE IF entry = Null THEN Throw("TypeError")
    ELSE Bool(/\ Cardinality(DOMAIN entry.jv) = 2
              /\ KeyKey \in DOMAIN entry.jv
              /\ KeyRows \in DOMAIN entry.jv)

\* The loop of Groupings.isGrouping(entry), from position index on.
RECURSIVE isGroupingFrom(_, _)
isGroupingFrom(entry, index) ==
    IF index > Len(entry.jv) THEN Bool(TRUE)
    ELSE LET group == isElementGroup(entry.jv[index])
         IN  IF group.js = "throw" THEN group
             ELSE IF ~group.jv THEN Bool(FALSE)
             ELSE isGroupingFrom(entry, index + 1)

\* Groupings.isGrouping(entry)
isGrouping(entry) == isGroupingFrom(entry, 1)

\* Objects with the keys of a group, with one more, with one less, with two
\* other keys.
GroupShapes ==
    {Obj([k \in K |-> IF k = KeyRows THEN Arr(<<>>) ELSE Num(1)]) :
        K \in {{KeyKey, KeyRows}, {KeyKey, KeyRows, StrA}, {KeyKey}, {KeyRows, StrA},
               {StrA, StrB}, {}}}

\* The values the predicates are applied to, and the arrays isGrouping is.
ClassifyValues == Literals \cup GroupShapes
GroupingArrays ==
    {Arr(s) : s \in SeqsUpTo(GroupShapes \cup {Null, Num(1), Arr(<<>>)}, MaxArrayLen)}

NoClasses ==
    [object |-> FALSE, group |-> Bool(FALSE), grouping |-> Bool(FALSE), leaves |-> Null]

ClassifyInit ==
    /\ val1 \in ClassifyValues
    /\ val2 \in GroupingArrays
    /\ val3 \in Functions \cup {Fn(2)}
    /\ cpc = "start"
    /\ cmp = NoClasses
    /\ NestIdle
    /\ RewriteIdle
    /\ CompletionIdle
    /\ CopyIdle

\* isObject, isElementGroup and mapLeaves applied to val1 (with the function
\* val3), isGrouping applied to val2.
Classify ==
    /\ cpc = "start"
    /\ cmp' = [object |-> isObject(val1),
               group |-> isElementGroup(val1),
               grouping |-> isGrouping(val2),
               leaves |-> mapLeaves(val1, val3)]
    /\ cpc' = "done"
    /\ UNCHANGED <<val1, val2, val3>>
    /\ UNCHANGED <<nvars, rvars, tvars, hvars>>

ClassifyNext == Classify

SpecClassify == ClassifyInit /\ [][ClassifyNext]_vars

\* A predicate before isObject in the priority list of wrapValue accepts val.
AcceptedEarlier(val) ==
    \/ isNull(val) \/ isNumber(val) \/ isString(val) \/ isBoolean(val)
    \/ isDuration(val) \/ isDate(val) \/ isHtml(val) \/ isArray(val)
    \/ isLink(val) \/ isFunction(val)

\* C14: isObject accepts no value that an earlier predicate of the priority
\* list accepts, so the operations that branch on isObject never treat such a
\* value as an Object: isElementGroup answers false for it, and mapLeaves
\* hands it to the function (an array element by element).
C14_ObjectExcludesEarlierTags ==
    (cpc = "done" /\ AcceptedEarlier(val1))
    => /\ ~cmp.object
       /\ cmp.group = Bool(FALSE)
       /\ ~isArray(val1) => cmp.leaves = applyLeaf(val3, val1)
       /\ cmp.leaves.js # "throw"

\* The value is Object-tagged and its keys are exactly key and rows.
IsGroupRecord(val) ==
    /\ wrapValue(val) # Undefined
    /\ wrapValue(val).type = "object"
    /\ DOMAIN val.jv = {KeyKey, KeyRows}

\* C15: isElementGroup(x) is true iff x is Object-tagged with exactly the keys
\* key and rows, and false otherwise; isGrouping(seq) is true iff every
\* element of seq satisfies isElementGroup, so true for the empty sequence and
\* false for any sequence with an element that has one field more or less.
C15_GroupingByShape ==
    cpc = "done"
    => /\ cmp.group = Bool(IsGroupRecord(val1))
       /\ cmp.grouping = Bool(\A i \in 1..Len(val2.jv) : IsGroupRecord(val2.jv[i]))

-----------------------------------------------------------------------------
(* The checkbox of a rendered task toggled again and again: onChecked.      *)

\* Most toggles of the checkbox of the rendered task.
MaxToggles == 3

\* The status between the brackets of the list item at a line of a document;
\* empty if the line is no list item with a checkbox.
storedStatus(document, line) ==
    LET lines == splitLines(document)
        match == IF line < Len(lines) THEN listItemExec(lines[line + 1]) ELSE Null
    IN  IF match = Null \/ match.jv[2] = Undefined \/ Len(match.jv[2].jv) < 3 THEN <<>>
        ELSE <<match.jv[2].jv[2]>>

\* The task nodes the index makes of a document: the node of a task line,
\* with the marker, the status and the text of the line, of one line or with
\* the line after it as a second line of text.
IndexedTasks(document) ==
    LET lines == splitLines(document)
    IN  {[TaskOf(PathA, line, text, storedStatus(document, line))
            EXCEPT !.symbol = listItemExec(lines[line + 1]).jv[1].jv] :
            <<line, text>> \in
                {<<l, t>> \in (0..(Len(lines) - 1)) \X {TextA, TextAB} :
                    /\ storedStatus(document, l) # <<>>
                    /\ trim(listItemExec(lines[l + 1]).jv[3].jv) = splitNewline(t)[1]
                    /\ Len(splitNewline(t)) = 2
                        => /\ l + 1 < Len(lines)
                           /\ trim(lines[l + 2]) = splitNewline(t)[2]}}

\* A document is rendered: the node of one of its tasks is shown with a
\* checkbox, which is there to be toggled MaxToggles times.
TogglesInit ==
    /\ \E doc \in Documents :
          /\ vault = [path \in Paths |-> IF path = PathA THEN doc ELSE DocB]
          /\ \E task \in IndexedTasks(doc) : call = [p \in 1..MaxToggles |-> IdleCall(task)]
    /\ io = <<>>
    /\ CompareIdle
    /\ NestIdle
    /\ CompletionIdle
    /\ CopyIdle

\* The checkbox shows item.completed at first and the other state after each
\* click: evt.currentTarget.checked of click p.
checkedAt(p) ==
    IF p = 1 THEN call[p].task.status = Unchecked
    ELSE call[p - 1].desiredStatus # Checked

\* onChecked of click p: with completion tracking on or off in the settings,
\* it calls rewriteTask with the node it rendered and does not wait for it.
onChecked(p, taskCompletionTracking, today) ==
    LET completed == checkedAt(p)
        updatedText ==
            IF taskCompletionTracking
            THEN Str(setTaskCompletion(call[p].task.text, CompletionKey, completed, today))
            ELSE Undefined
    IN  CallWith(p, IF completed THEN Checked ELSE Unchecked, updatedText)

\* The next click, the rewrite of the click before it having completed.
Toggle ==
    \E p \in DOMAIN call :
        /\ \A q \in 1..(p - 1) : call[q].pc \in {"done", "failed"}
        /\ \E taskCompletionTracking \in BOOLEAN, today \in ISODates :
              onChecked(p, taskCompletionTracking, today)

TogglesNext ==
    \/ Toggle
    \/ ReadDone
    \/ ReadFailed
    \/ WriteDone
    \/ WriteFailed

SpecToggles == TogglesInit /\ [][TogglesNext]_vars

\* C16: after any sequence of toggles of the checkbox of one rendered task,
\* each rewrite completed before the next toggle and the node never
\* re-indexed, the status stored in the document is the status the last
\* toggle asked for.
C16_LastToggleStored ==
    \A p \in DOMAIN call :
        (/\ \A q \in 1..p : call[q].pc = "done"
         /\ \A q \in (p + 1)..Len(call) : call[q].pc = "idle")
        => storedStatus(vault[call[p].task.path], call[p].task.line) = call[p].desiredStatus

-----------------------------------------------------------------------------
(* Two invocations of rewriteTask for two tasks of one document, their      *)
(* reads and writes in any order.                                           *)

\* Two tasks of one document are rendered; each is to be rewritten once.
OverlapInit ==
    /\ \E doc \in Documents :
          /\ vault = [path \in Paths |-> IF path = PathA THEN doc ELSE DocB]
          /\ \E task1 \in IndexedTasks(doc), task2 \in IndexedTasks(doc) :
                /\ task1.line < task2.line
                /\ call = <<IdleCall(task1), IdleCall(task2)>>
    /\ io = <<>>
    /\ CompareIdle
    /\ NestIdle
    /\ CompletionIdle
    /\ CopyIdle

SpecOverlap == OverlapInit /\ [][Next]_vars

\* C17: when two invocations of rewriteTask for two different tasks of one
\* document have both written a status, in whatever order their reads and
\* writes came, the document holds the status of both.
C17_BothWritesKept ==
    (/\ Len(call) = 2
     /\ \A p \in {1, 2} :
            /\ call[p].pc = "done"
            /\ WriteIssued(p)
            /\ call[p].desiredText = Undefined)
    => \A p \in {1, 2} :
            storedStatus(vault[call[p].task.path], call[p].task.line) = StatusWritten(call[p])

-----------------------------------------------------------------------------
\* The line at task.line of the text read, as the grammar sees it: no list
\* item, or a list item with an empty body.
NoItemOrEmptyBody(c) ==
    LET match == listItemExec(addressedLine(LinesRead(c), c.task))
    IN  match = Null \/ match.jv[3].jv = <<>>

\* C18: if the line at the cached offset does not match the list-item
\* grammar, or matches with an empty body, rewriteTask writes nothing and
\* ends without an error, whatever the line holds, a list item without a
\* checkbox included.
C18_GrammarMismatchSilent ==
    \A p \in DOMAIN call :
        LET c == call[p]
        IN  (ReadResolved(p) /\ NoItemOrEmptyBody(c))
            => /\ ~WriteIssued(p)
               /\ c.pc = "done"
               /\ c.error = "none"

-----------------------------------------------------------------------------
\* The positions in the log of the reads and of the writes invocation p issued.
ReadsOf(p) == {i \in 1..Len(io) : io[i].op = "read" /\ io[i].by = p}
WritesOf(p) == {i \in 1..Len(io) : io[i].op = "write" /\ io[i].by = p}

\* C19: every invocation of rewriteTask issues at most one read and at most
\* one write, both to the path of its task, the write only after the read
\* has resolved; if the read rejects, no write is issued and the invocation
\* ends rejected.
C19_OneReadThenOneWrite ==
    \A p \in DOMAIN call :
        /\ Cardinality(ReadsOf(p)) <= 1
        /\ Cardinality(WritesOf(p)) <= 1
        /\ \A i \in ReadsOf(p) \cup WritesOf(p) : io[i].path = call[p].task.path
        /\ \A w \in WritesOf(p) :
              /\ \E r \in ReadsOf(p) : r < w
              /\ call[p].pc \in {"writing", "done", "failed"}
              /\ call[p].error \in {"none", "write"}
        /\ call[p].error = "read" => (WritesOf(p) = {} /\ call[p].pc = "failed")
        /\ call[p].pc = "reading" => WritesOf(p) = {}

\* The read of an invocation was rejected: it ended rejected, with one read
\* and no write in the log.
C19_Witness ==
    /\ Len(call) = 1
    /\ call[1].pc = "failed"
    /\ call[1].error = "read"
    /\ Len(io) = 1
    /\ io[1].op = "read"

-----------------------------------------------------------------------------
(* Values.compareValue called with a link normalizer.                       *)

\* The normalizers: every path made the path "a", and every path kept.
Normalizers ==
    {Fn([path \in {StrA, StrB} |-> StrA]), Fn([path \in {StrA, StrB} |-> path])}

\* Links to the files "a" and "b" and to a header of each, and the arrays and
\* objects that hold one of them.
LinkValues ==
    LET links == {LinkOf(path, "file", Undefined) : path \in {StrA, StrB}}
                    \cup {LinkOf(path, "header", Str(StrH)) : path \in {StrA, StrB}}
    IN  links \cup {Arr(<<link>>) : link \in links}
              \cup {Arr(<<Num(1), link>>) : link \in links}
              \cup {Obj([k \in {StrA} |-> link]) : link \in links}
              \cup {Arr(<<Arr(<<link>>)>>) : link \in links}

NormalizedInit ==
    /\ val1 \in LinkValues
    /\ val2 \in LinkValues
    /\ val3 \in Normalizers
    /\ cpc = "start"
    /\ cmp = NoResults
    /\ NestIdle
    /\ RewriteIdle
    /\ CompletionIdle
    /\ CopyIdle

\* Values.compareValue(val1, val2, linkNormalizer), both ways round.
CompareNormalized ==
    /\ cpc = "start"
    /\ cmp' = [NoResults EXCEPT !.r12 = compareValue(val1, val2, val3),
                                !.r21 = compareValue(val2, val1, val3)]
    /\ cpc' = "done"
    /\ UNCHANGED <<val1, val2, val3>>
    /\ UNCHANGED <<nvars, rvars, tvars, hvars>>

NormalizedNext == CompareNormalized

SpecNormalized == NormalizedInit /\ [][NormalizedNext]_vars

\* The value with the path of every link in it, at any depth, normalized.
RECURSIVE WithNormalizedPaths(_, _)
WithNormalizedPaths(val, linkNormalizer) ==
    IF isLink(val) THEN LinkOf(linkNormalizer.jv[val.jv.path], val.jv.type, val.jv.subpath)
    ELSE IF isArray(val)
    THEN Arr([i \in 1..Len(val.jv) |-> WithNormalizedPaths(val.jv[i], linkNormalizer)])
    ELSE IF val.js = "Object"
    THEN Obj([k \in DOMAIN val.jv |-> WithNormalizedPaths(val.jv[k], linkNormalizer)])
    ELSE val

\* C20: with a link normalizer, links are ordered by their normalized path
\* wherever they occur: two values that differ only in the raw paths of their
\* links, the normalized paths being equal, compare as 0, whether they are
\* the links themselves, arrays that hold them or objects that hold them.
C20_NormalizedWhereverLinksOccur ==
    (cpc = "done" /\ WithNormalizedPaths(val1, val3) = WithNormalizedPaths(val2, val3))
    => cmp.r12 = 0 /\ cmp.r21 = 0

====
